---- MODULE Spec2Model ----
(***************************************************************************)
(* codegen/src/api/calls.rs: generate_calls, and the accessor methods it   *)
(* emits.                                                                  *)
(*                                                                         *)
(* Two specifications:                                                     *)
(*   SpecGen  one run of generate_calls over a bounded family of schemas;  *)
(*   Spec     invocations of the emitted accessors by client threads,      *)
(*            against a live metadata that the client refreshes            *)
(*            concurrently.                                                *)
(***************************************************************************)
EXTENDS Integers, Sequences, FiniteSets, TLC

VARIABLES
    metadata,           \* generation-time RuntimeMetadataV14: call-hash table
    type_gen,           \* generation-time TypeGenerator: type id -> type
    pallet,             \* PalletMetadata: [name, calls]
    feature,            \* "checked" | "not-metadata-check"
    out,                \* what generate_calls produced ("pending" before the run)
    live,               \* the client's live metadata: call key -> hash | NotFound
    writer,             \* TRUE while the client holds the write lock
    readers,            \* threads holding a read guard
    pc,                 \* per thread: position in the accessor body
    frame,              \* per thread: [op, args] of the running invocation
    pending,            \* per thread: the Result of metadata.call_hash()
    runtime_call_hash,  \* per thread: Option<hash>
    result,             \* per thread: the accessor's return value
    hist                \* per thread: history of the running invocation

vars == <<metadata, type_gen, pallet, feature, out, live, writer, readers,
          pc, frame, pending, runtime_call_hash, result, hist>>
genVars == <<metadata, type_gen, pallet, feature, out>>
runVars == <<live, writer, readers, pc, frame, pending, runtime_call_hash,
             result, hist>>

(***************************************************************************)
(* Bounds                                                                  *)
(***************************************************************************)
MaxVariants == 2        \* variants of an operation-group in SpecGen
HashLen == 2            \* bytes of a call hash

(***************************************************************************)
(* Option<T> as a sequence of at most one element.                         *)
(***************************************************************************)
None == <<>>
Some(v) == <<v>>
IsSome(o) == Len(o) = 1
Unwrap(o) == o[1]

(***************************************************************************)
(* Name normalisation (heck).  Identifiers are sequences of characters.    *)
(***************************************************************************)
LowerChars == {"a", "b", "c"}
UpperChars == {"A", "B", "C"}

ToLowerChar(c) ==
    CASE c = "A" -> "a" [] c = "B" -> "b" [] c = "C" -> "c" [] OTHER -> c

ToUpperChar(c) ==
    CASE c = "a" -> "A" [] c = "b" -> "B" [] c = "c" -> "C" [] OTHER -> c

\* Word boundaries: a non-alphanumeric character (dropped), a lower-case
\* character followed by an upper-case one, and the last capital of a run of
\* capitals that is followed by a lower-case character.
RECURSIVE SplitWords(_, _, _, _)
SplitWords(s, i, cur, ws) ==
    IF i > Len(s) THEN (IF cur = <<>> THEN ws ELSE Append(ws, cur))
    ELSE LET c == s[i] IN
         IF c \notin LowerChars \cup UpperChars
         THEN SplitWords(s, i + 1, <<>>,
                         IF cur = <<>> THEN ws ELSE Append(ws, cur))
         ELSE IF /\ cur # <<>>
                 /\ c \in UpperChars
                 /\ \/ cur[Len(cur)] \in LowerChars
                    \/ /\ cur[Len(cur)] \in UpperChars
                       /\ i < Len(s)
                       /\ s[i + 1] \in LowerChars
         THEN SplitWords(s, i + 1, <<c>>, Append(ws, cur))
         ELSE SplitWords(s, i + 1, Append(cur, c), ws)

RECURSIVE JoinWords(_, _)
JoinWords(ws, sep) ==
    IF ws = <<>> THEN <<>>
    ELSE IF Len(ws) = 1 THEN ws[1]
    ELSE ws[1] \o sep \o JoinWords(Tail(ws), sep)

Capitalise(w) ==
    [i \in 1..Len(w) |-> IF i = 1 THEN ToUpperChar(w[i]) ELSE ToLowerChar(w[i])]

LowerWord(w) == [i \in 1..Len(w) |-> ToLowerChar(w[i])]

to_snake_case(s) ==
    LET ws == SplitWords(s, 1, <<>>, <<>>)
    IN JoinWords([i \in 1..Len(ws) |-> LowerWord(ws[i])], <<"_">>)

to_upper_camel_case(s) ==
    LET ws == SplitWords(s, 1, <<>>, <<>>)
    IN JoinWords([i \in 1..Len(ws) |-> Capitalise(ws[i])], <<>>)

(***************************************************************************)
(* Call hashes: fixed-length byte arrays.                                  *)
(***************************************************************************)
HashA == [i \in 1..HashLen |-> 0]
\* differs from HashA in the last byte only
HashB == [i \in 1..HashLen |-> IF i = HashLen THEN 1 ELSE 0]
\* differs from HashA in the first byte only
HashC == [i \in 1..HashLen |-> IF i = 1 THEN 1 ELSE 0]

(***************************************************************************)
(* The schema family.                                                      *)
(***************************************************************************)
\* Names and the rendering of a type id are sequences of characters.
PalletName == <<"B", "a", "l">>
CallTypeId == <<"7">>
NameMenu == << <<"a", "_", "b">>, <<"b", "C">>, <<"A", "B", "c">>, <<"c", "c">> >>

NoFieldsShape == [kind |-> "NoFields", list |-> <<>>]
NamedPlain ==
    [kind |-> "Named",
     list |-> << [name |-> "dest", type_path |-> "AccountId", boxed |-> FALSE],
                 [name |-> "value", type_path |-> "Balance", boxed |-> FALSE] >>]
NamedBoxed ==
    [kind |-> "Named",
     list |-> << [name |-> "call", type_path |-> "Call", boxed |-> TRUE],
                 [name |-> "weight", type_path |-> "u64", boxed |-> FALSE] >>]
UnnamedShape ==
    [kind |-> "Unnamed",
     list |-> << [name |-> "", type_path |-> "u32", boxed |-> FALSE] >>]

ShapeMenu == {NoFieldsShape, NamedPlain, NamedBoxed, UnnamedShape}
DocsMenu == {<<>>, <<"doc line">>}
\* A hash table maps a key to Option<hash>: None when the key has no entry.
GenHashMenu == {None, Some(HashA), Some(HashB)}
LiveHashMenu == {None, Some(HashA), Some(HashB), Some(HashC)}

\* One variant of the operation-group, without its name.
VariantBodies == [fields : ShapeMenu, docs : DocsMenu]

NameVariant(i, body) == [name |-> NameMenu[i], fields |-> body.fields, docs |-> body.docs]

VariantLists ==
    UNION {{[i \in 1..n |-> NameVariant(i, bs[i])] : bs \in [1..n -> VariantBodies]}
           : n \in 0..MaxVariants}

CallType(vs) == [docs |-> <<"group doc">>, variants |-> vs]

Key(pallet_name, call_name) == <<pallet_name, call_name>>

KeysOf(vs) == {Key(PalletName, vs[i].name) : i \in 1..Len(vs)}

\* The metadata's hash table for the variants vs, hs[i] the entry of vs[i].
HashTable(vs, hs) ==
    [k \in KeysOf(vs) |-> hs[CHOOSE i \in 1..Len(vs) : Key(PalletName, vs[i].name) = k]]

Features == {"checked", "not-metadata-check"}

(***************************************************************************)
(* Collaborators of generate_calls.                                        *)
(***************************************************************************)
Ok(v) == [ok |-> TRUE, val |-> Some(v), err |-> ""]
Err(e) == [ok |-> FALSE, val |-> None, err |-> e]

\* subxt_metadata::get_call_hash: the fingerprint of (pallet, call), or a
\* not-found failure.
get_call_hash(md, pallet_name, call_name) ==
    LET k == Key(pallet_name, call_name) IN
    IF k \in DOMAIN md /\ IsSome(md[k]) THEN Ok(Unwrap(md[k])) ELSE Err("NotFound")

\* super::generate_structs_from_variants: one (variant name, struct
\* definition) pair per variant, in the order of the variants; the struct
\* keeps the variant's fields and its documentation, and is named by the
\* closure of line 73, |name| name.to_upper_camel_case().
generate_structs_from_variants(tg, type_id) ==
    LET vs == tg[type_id].variants IN
    [i \in 1..Len(vs) |->
        [variant_name |-> vs[i].name,
         struct_def |-> [name |-> to_upper_camel_case(vs[i].name),
                         fields |-> vs[i].fields,
                         docs |-> Some(vs[i].docs)]]]

\* ToTokens of Option<TokenStream>: nothing for None.
DocTokens(o) == IF IsSome(o) THEN Unwrap(o) ELSE <<>>

(***************************************************************************)
(* generate_calls                                                          *)
(***************************************************************************)
Plain(name) == [layers |-> 0, var |-> name]
Boxed(name) == [layers |-> 1, var |-> name]

\* lines 85-91: the accessor's parameter and the struct-literal field of one
\* named field.
CallArg_neverBoxed(name, field) == [field |-> name, expr |-> Plain(name)]

CallArg(name, field) ==
    IF field.boxed
    THEN [field |-> name, expr |-> Boxed(name)]
    ELSE [field |-> name, expr |-> Plain(name)]

FnArg(name, field) == [name |-> name, type |-> field.type_path]

AbortUnnamed(call_ty_id) ==
    [msg |-> "Call variant for type {} must have all named fields",
     args |-> <<call_ty_id>>]

AbortNoHash(pallet_name, call_name) ==
    [msg |-> "Metadata information for the call {}_{} could not be found",
     args |-> <<pallet_name, call_name>>]

NoAbort == [msg |-> "", args |-> <<>>]

\* lines 79-101: the match on the struct's field shape.
FieldArgs_unnamedAsEmpty(struct_def, call_ty_id) ==
    IF struct_def.fields.kind = "Named"
    THEN LET fs == struct_def.fields.list IN
         [aborted |-> FALSE, abort |-> NoAbort,
          call_fn_args |-> [i \in 1..Len(fs) |-> FnArg(fs[i].name, fs[i])],
          call_args |-> [i \in 1..Len(fs) |-> CallArg(fs[i].name, fs[i])]]
    ELSE [aborted |-> FALSE, abort |-> NoAbort,
          call_fn_args |-> <<>>, call_args |-> <<>>]

FieldArgs(struct_def, call_ty_id) ==
    CASE struct_def.fields.kind = "Named" ->
            LET fs == struct_def.fields.list IN
            [aborted |-> FALSE, abort |-> NoAbort,
             call_fn_args |-> [i \in 1..Len(fs) |-> FnArg(fs[i].name, fs[i])],
             call_args |-> [i \in 1..Len(fs) |-> CallArg(fs[i].name, fs[i])]]
      [] struct_def.fields.kind = "NoFields" ->
            [aborted |-> FALSE, abort |-> NoAbort,
             call_fn_args |-> <<>>, call_args |-> <<>>]
      [] struct_def.fields.kind = "Unnamed" ->
            [aborted |-> TRUE, abort |-> AbortUnnamed(call_ty_id),
             call_fn_args |-> <<>>, call_args |-> <<>>]

\* line 112: struct_def.docs.take()
TakeDocs_clone(struct_def) == [taken |-> struct_def.docs, left |-> struct_def]

TakeDocs(struct_def) ==
    [taken |-> struct_def.docs, left |-> [struct_def EXCEPT !.docs = None]]

\* lines 114-121
CallStruct(struct_def, pallet_name, call_name) ==
    [struct_def |-> struct_def,
     call_impl |-> [for |-> struct_def.name,
                    PALLET |-> pallet_name,
                    FUNCTION |-> call_name]]

\* lines 122-142: the accessor with the compatibility check.  body.call_hash
\* is the embedded array, as Some(array); None in a body that embeds none.
ClientFnChecked_plainArgs(docs, fn_name, call_fn_args, struct_name, call_hash, call_args) ==
    [docs |-> DocTokens(docs),
     fn_name |-> fn_name,
     params |-> call_fn_args,
     struct_name |-> struct_name,
     body |-> [mode |-> "checked",
               call_hash |-> Some(call_hash),
               call_args |-> [i \in 1..Len(call_args) |->
                                [call_args[i] EXCEPT !.expr.layers = 0]]]]

ClientFnChecked(docs, fn_name, call_fn_args, struct_name, call_hash, call_args) ==
    [docs |-> DocTokens(docs),
     fn_name |-> fn_name,
     params |-> call_fn_args,
     struct_name |-> struct_name,
     body |-> [mode |-> "checked",
               call_hash |-> Some(call_hash),
               call_args |-> call_args]]

\* lines 144-154: the accessor without it.
ClientFnUnchecked(docs, fn_name, call_fn_args, struct_name, call_hash, call_args) ==
    [docs |-> DocTokens(docs),
     fn_name |-> fn_name,
     params |-> call_fn_args,
     struct_name |-> struct_name,
     body |-> [mode |-> "unchecked",
               call_hash |-> None,
               call_args |-> call_args]]

\* lines 106-107: get_call_hash(..).unwrap_or_else(|_| abort_call_site!(..))
ResolveCallHash_default(md, pallet_name, call_name) ==
    LET h == get_call_hash(md, pallet_name, call_name) IN
    [aborted |-> FALSE, abort |-> NoAbort,
     call_hash |-> IF h.ok THEN Unwrap(h.val) ELSE HashA]

ResolveCallHash(md, pallet_name, call_name) ==
    LET h == get_call_hash(md, pallet_name, call_name) IN
    IF h.ok
    THEN [aborted |-> FALSE, abort |-> NoAbort, call_hash |-> Unwrap(h.val)]
    ELSE [aborted |-> TRUE, abort |-> AbortNoHash(pallet_name, call_name),
          call_hash |-> HashA]

\* lines 78-157: the closure mapped over the struct definitions.
CallPair(md, p, call, feat, entry) ==
    LET fa == FieldArgs(entry.struct_def, call.ty) IN
    IF fa.aborted
    THEN [aborted |-> TRUE, abort |-> fa.abort, looked |-> FALSE,
          call_struct |-> <<>>, client_fn |-> <<>>]
    ELSE
    LET pallet_name == p.name
        call_name == entry.variant_name
        struct_name == entry.struct_def.name
        rh == ResolveCallHash(md, pallet_name, call_name)
    IN
    IF rh.aborted
    THEN [aborted |-> TRUE, abort |-> rh.abort, looked |-> TRUE,
          call_struct |-> <<>>, client_fn |-> <<>>]
    ELSE
    LET call_hash == rh.call_hash
        fn_name == to_snake_case(entry.variant_name)
        tk == TakeDocs(entry.struct_def)
        docs == tk.taken
        call_struct == CallStruct(tk.left, pallet_name, call_name)
        client_fn ==
            IF feat = "checked"
            THEN ClientFnChecked(docs, fn_name, fa.call_fn_args, struct_name,
                                 call_hash, fa.call_args)
            ELSE ClientFnUnchecked(docs, fn_name, fa.call_fn_args, struct_name,
                                   call_hash, fa.call_args)
    IN [aborted |-> FALSE, abort |-> NoAbort, looked |-> TRUE,
        call_struct |-> <<call_struct>>, client_fn |-> <<client_fn>>]

\* lines 76-158: .iter_mut().map(..).unzip(), which stops at the first abort.
\* checked and looked record the variants whose shape was matched and whose
\* hash was looked up.
RECURSIVE MapVariants(_, _, _, _, _, _, _)
MapVariants(md, p, call, feat, defs, i, acc) ==
    IF i > Len(defs) THEN acc
    ELSE LET pair == CallPair(md, p, call, feat, defs[i])
             seen == [acc EXCEPT
                        !.checked = Append(@, defs[i].variant_name),
                        !.looked = IF pair.looked
                                   THEN Append(@, defs[i].variant_name) ELSE @]
         IN IF pair.aborted
            THEN [seen EXCEPT !.aborted = TRUE, !.abort = pair.abort]
            ELSE MapVariants(md, p, call, feat, defs, i + 1,
                     [seen EXCEPT !.call_structs = @ \o pair.call_struct,
                                  !.call_fns = @ \o pair.client_fn])

EmptyAcc ==
    [aborted |-> FALSE, abort |-> NoAbort, call_structs |-> <<>>,
     call_fns |-> <<>>, checked |-> <<>>, looked |-> <<>>]

Tokens(kind, abort, docs, structs, fns, checked, looked) ==
    [kind |-> kind, abort |-> abort, docs |-> docs, structs |-> structs,
     fns |-> fns, checked |-> checked, looked |-> looked]

\* lines 63-68: the early return when the pallet has no calls.
NoCalls_emptyModule(p) ==
    IF p.calls = None
    THEN Tokens("module", NoAbort, <<>>, <<>>, <<>>, <<>>, <<>>)
    ELSE Tokens("continue", NoAbort, <<>>, <<>>, <<>>, <<>>, <<>>)

NoCalls(p) ==
    IF p.calls = None
    THEN Tokens("empty", NoAbort, <<>>, <<>>, <<>>, <<>>, <<>>)
    ELSE Tokens("continue", NoAbort, <<>>, <<>>, <<>>, <<>>, <<>>)

\* lines 57-191
generate_calls(md, tg, p, feat) ==
    LET early == NoCalls(p) IN
    IF early.kind # "continue" THEN early
    ELSE
    LET call == Unwrap(p.calls)
        struct_defs == generate_structs_from_variants(tg, call.ty)
        r == MapVariants(md, p, call, feat, struct_defs, 1, EmptyAcc)
    IN
    IF r.aborted
    THEN Tokens("abort", r.abort, <<>>, <<>>, <<>>, r.checked, r.looked)
    ELSE Tokens("module", NoAbort, tg[call.ty].docs, r.call_structs, r.call_fns,
                r.checked, r.looked)

Pending == Tokens("pending", NoAbort, <<>>, <<>>, <<>>, <<>>, <<>>)

(***************************************************************************)
(* SpecGen: one run of generate_calls.                                     *)
(***************************************************************************)
Threads == {"t1", "t2"}
Values == {"X", "Y"}

NoFrame == [op |-> 0, args |-> <<>>]
NoResult == [kind |-> "none", err |-> "", handle |-> None]
\* seen: the live entry at the moment of the lookup (under the read guard).
NoHist == [seen |-> None, looked |-> FALSE, compared |-> FALSE,
           constructed |-> FALSE]

RunIdle ==
    /\ writer = FALSE
    /\ readers = {}
    /\ pc = [t \in Threads |-> "idle"]
    /\ frame = [t \in Threads |-> NoFrame]
    /\ pending = [t \in Threads |-> Err("")]
    /\ runtime_call_hash = [t \in Threads |-> None]
    /\ result = [t \in Threads |-> NoResult]
    /\ hist = [t \in Threads |-> NoHist]

InitGen ==
    /\ \E vs \in VariantLists :
         /\ type_gen = [id \in {CallTypeId} |-> CallType(vs)]
         /\ \E hs \in [1..Len(vs) -> GenHashMenu] : metadata = HashTable(vs, hs)
         /\ live = [k \in KeysOf(vs) |-> None]
    /\ \E c \in {None, Some([ty |-> CallTypeId])} :
         pallet = [name |-> PalletName, calls |-> c]
    /\ feature \in Features
    /\ out = Pending
    /\ RunIdle

Generate ==
    /\ out.kind = "pending"
    /\ out' = generate_calls(metadata, type_gen, pallet, feature)
    /\ UNCHANGED <<metadata, type_gen, pallet, feature>>
    /\ UNCHANGED runVars

NextGen == Generate

SpecGen == InitGen /\ [][NextGen]_vars

(***************************************************************************)
(* Spec: the emitted accessors at run time.                                *)
(***************************************************************************)
RunVariantLists ==
    { << NameVariant(1, [fields |-> NamedPlain, docs |-> <<"doc line">>]) >>,
      << NameVariant(1, [fields |-> NamedBoxed, docs |-> <<>>]),
         NameVariant(2, [fields |-> NoFieldsShape, docs |-> <<"doc line">>]) >> }

Init ==
    /\ \E vs \in RunVariantLists :
         /\ type_gen = [id \in {CallTypeId} |-> CallType(vs)]
         /\ metadata = HashTable(vs, [i \in 1..Len(vs) |->
                                        IF i = 1 THEN Some(HashA) ELSE Some(HashB)])
         /\ live \in [KeysOf(vs) -> LiveHashMenu]
    /\ pallet = [name |-> PalletName, calls |-> Some([ty |-> CallTypeId])]
    /\ feature \in Features
    /\ out = generate_calls(metadata, type_gen, pallet, feature)
    /\ RunIdle

\* The accessor and the struct of the invocation thread t runs.
FnOf(t) == out.fns[frame[t].op]
ImplOf(struct_name) ==
    (CHOOSE s \in {out.structs[i] : i \in 1..Len(out.structs)} :
        s.struct_def.name = struct_name).call_impl

\* Metadata::call_hash::<C>(): the live fingerprint of (C::PALLET,
\* C::FUNCTION), or a metadata error.
call_hash(md, impl) ==
    LET k == Key(impl.PALLET, impl.FUNCTION) IN
    IF k \in DOMAIN md /\ IsSome(md[k]) THEN Ok(Unwrap(md[k]))
    ELSE Err("MetadataError::CallNotFound")

LiveEntry(md, impl) ==
    LET k == Key(impl.PALLET, impl.FUNCTION) IN
    IF k \in DOMAIN md THEN md[k] ELSE None

\* line 135: runtime_call_hash == [#(#call_hash,)*], byte for byte.  The block
\* of lines 129-133 yields Some(hash); the comparison is that of the hash it
\* wraps with the embedded array (b is Some(array) in a checked body).
HashEq_firstByte(a, b) == IsSome(a) /\ IsSome(b) /\ Unwrap(a)[1] = Unwrap(b)[1]

HashEq(a, b) ==
    /\ IsSome(a) /\ IsSome(b)
    /\ \A i \in 1..HashLen : Unwrap(a)[i] = Unwrap(b)[i]

\* The value line 135 compares with the embedded hash.
ComparedHash_reread(t) == LiveEntry(live, ImplOf(FnOf(t).struct_name))

ComparedHash(t) == runtime_call_hash[t]

\* lines 136 and 151: #struct_name { #( #call_args, )* } evaluated with the
\* parameters bound to the arguments.
ArgOf(fn, args, var) == args[CHOOSE j \in 1..Len(fn.params) : fn.params[j].name = var]

EvalExpr(fn, args, e) == [layers |-> e.layers, v |-> ArgOf(fn, args, e.var)]

EvalStruct(fn, args) ==
    [struct |-> fn.struct_name,
     fields |-> [i \in 1..Len(fn.body.call_args) |->
                   [name |-> fn.body.call_args[i].field,
                    value |-> EvalExpr(fn, args, fn.body.call_args[i].expr)]]]

\* SubmittableExtrinsic::new(self.client, call)
Handle(call) == [client |-> "client", call |-> call]

\* A caller enters an accessor of the emitted TransactionApi.
Invoke(t) ==
    /\ pc[t] = "idle"
    /\ out.kind = "module"
    /\ \E i \in 1..Len(out.fns) :
         \E args \in [1..Len(out.fns[i].params) -> Values] :
            /\ frame' = [frame EXCEPT ![t] = [op |-> i, args |-> args]]
            /\ pc' = [pc EXCEPT ![t] =
                        IF out.fns[i].body.mode = "checked" THEN "lock" ELSE "construct"]
    /\ UNCHANGED <<live, writer, readers, pending, runtime_call_hash, result, hist>>
    /\ UNCHANGED genVars

\* lines 130-131: self.client.metadata() and .read()
AcquireRead(t) ==
    /\ pc[t] = "lock"
    /\ ~writer
    /\ readers' = readers \cup {t}
    /\ pc' = [pc EXCEPT ![t] = "lookup"]
    /\ UNCHANGED <<live, writer, frame, pending, runtime_call_hash, result, hist>>
    /\ UNCHANGED genVars

\* line 132: metadata.call_hash::<#struct_name>()
Lookup(t) ==
    /\ pc[t] = "lookup"
    /\ LET impl == ImplOf(FnOf(t).struct_name) IN
         /\ pending' = [pending EXCEPT ![t] = call_hash(live, impl)]
         /\ hist' = [hist EXCEPT ![t].looked = TRUE,
                                 ![t].seen = LiveEntry(live, impl)]
    /\ pc' = [pc EXCEPT ![t] = "scope_end"]
    /\ UNCHANGED <<live, writer, readers, frame, runtime_call_hash, result>>
    /\ UNCHANGED genVars

\* lines 132-133: `?` returns the error, otherwise the block yields Some(hash);
\* either way the guard is dropped as the block is left.
ReleaseRead_leakOnError(t) ==
    /\ pc[t] = "scope_end"
    /\ IF pending[t].ok
       THEN /\ readers' = readers \ {t}
            /\ runtime_call_hash' = [runtime_call_hash EXCEPT ![t] = pending[t].val]
            /\ pc' = [pc EXCEPT ![t] = "compare"]
            /\ UNCHANGED result
       ELSE /\ readers' = readers
            /\ result' = [result EXCEPT ![t] =
                            [kind |-> "Err", err |-> pending[t].err, handle |-> None]]
            /\ pc' = [pc EXCEPT ![t] = "done"]
            /\ UNCHANGED runtime_call_hash
    /\ UNCHANGED <<live, writer, frame, pending, hist>>
    /\ UNCHANGED genVars

ReleaseRead_swallowError(t) ==
    /\ pc[t] = "scope_end"
    /\ readers' = readers \ {t}
    /\ runtime_call_hash' = [runtime_call_hash EXCEPT ![t] = pending[t].val]
    /\ pc' = [pc EXCEPT ![t] = "compare"]
    /\ UNCHANGED <<live, writer, frame, pending, result, hist>>
    /\ UNCHANGED genVars

ReleaseRead(t) ==
    /\ pc[t] = "scope_end"
    /\ readers' = readers \ {t}
    /\ IF pending[t].ok
       THEN /\ runtime_call_hash' = [runtime_call_hash EXCEPT ![t] = pending[t].val]
            /\ pc' = [pc EXCEPT ![t] = "compare"]
            /\ UNCHANGED result
       ELSE /\ result' = [result EXCEPT ![t] =
                            [kind |-> "Err", err |-> pending[t].err, handle |-> None]]
            /\ pc' = [pc EXCEPT ![t] = "done"]
            /\ UNCHANGED runtime_call_hash
    /\ UNCHANGED <<live, writer, frame, pending, hist>>
    /\ UNCHANGED genVars

\* lines 135, 138-140
Compare(t) ==
    /\ pc[t] = "compare"
    /\ hist' = [hist EXCEPT ![t].compared = TRUE]
    /\ IF HashEq(ComparedHash(t), FnOf(t).body.call_hash)
       THEN /\ pc' = [pc EXCEPT ![t] = "construct"]
            /\ UNCHANGED result
       ELSE /\ result' = [result EXCEPT ![t] =
                            [kind |-> "Err",
                             err |-> "MetadataError::IncompatibleMetadata",
                             handle |-> None]]
            /\ pc' = [pc EXCEPT ![t] = "done"]
    /\ UNCHANGED <<live, writer, readers, frame, pending, runtime_call_hash>>
    /\ UNCHANGED genVars

\* lines 136-137 and 151-152
Construct(t) ==
    /\ pc[t] = "construct"
    /\ hist' = [hist EXCEPT ![t].constructed = TRUE]
    /\ result' = [result EXCEPT ![t] =
                    [kind |-> "Ok", err |-> "",
                     handle |-> Some(Handle(EvalStruct(FnOf(t), frame[t].args)))]]
    /\ pc' = [pc EXCEPT ![t] = "done"]
    /\ UNCHANGED <<live, writer, readers, frame, pending, runtime_call_hash>>
    /\ UNCHANGED genVars

\* The caller takes the result; the thread is free for another invocation.
Return(t) ==
    /\ pc[t] = "done"
    /\ pc' = [pc EXCEPT ![t] = "idle"]
    /\ frame' = [frame EXCEPT ![t] = NoFrame]
    /\ pending' = [pending EXCEPT ![t] = Err("")]
    /\ runtime_call_hash' = [runtime_call_hash EXCEPT ![t] = None]
    /\ result' = [result EXCEPT ![t] = NoResult]
    /\ hist' = [hist EXCEPT ![t] = NoHist]
    /\ UNCHANGED <<live, writer, readers>>
    /\ UNCHANGED genVars

\* The owning client refreshes the live metadata under the write lock.
RefreshBegin ==
    /\ ~writer
    /\ readers = {}
    /\ writer' = TRUE
    /\ UNCHANGED <<live, readers, pc, frame, pending, runtime_call_hash, result, hist>>
    /\ UNCHANGED genVars

RefreshEnd ==
    /\ writer
    /\ live' \in [DOMAIN live -> LiveHashMenu]
    /\ writer' = FALSE
    /\ UNCHANGED <<readers, pc, frame, pending, runtime_call_hash, result, hist>>
    /\ UNCHANGED genVars

Next ==
    \/ \E t \in Threads :
          \/ Invoke(t)
          \/ AcquireRead(t)
          \/ Lookup(t)
          \/ ReleaseRead(t)
          \/ Compare(t)
          \/ Construct(t)
          \/ Return(t)
    \/ RefreshBegin
    \/ RefreshEnd

Spec == Init /\ [][Next]_vars

(***************************************************************************)
(* Properties of generate_calls (SpecGen)                                  *)
(***************************************************************************)
Variants == type_gen[CallTypeId].variants
HasCalls == pallet.calls # None
Generated == out.kind # "pending"
IsUnnamed(i) == Variants[i].fields.kind = "Unnamed"
LacksHash(i) == ~get_call_hash(metadata, pallet.name, Variants[i].name).ok
NoArtifact == out.structs = <<>> /\ out.fns = <<>> /\ out.docs = <<>>
ArgsOf(a) == {a.args[j] : j \in 1..Len(a.args)}

\* The first variant, in declaration order, that generation cannot process.
Fails(i) == IsUnnamed(i) \/ LacksHash(i)
FirstFailing(i) == Fails(i) /\ \A j \in 1..(i - 1) : ~Fails(j)

C8_NothingOrOnePerOperation ==
    Generated =>
        /\ ~HasCalls =>
              /\ out.kind = "empty"
              /\ NoArtifact
              /\ out.checked = <<>>
              /\ out.looked = <<>>
        /\ (HasCalls /\ out.kind = "module") =>
              /\ Len(out.structs) = Len(Variants)
              /\ Len(out.fns) = Len(Variants)
              /\ \A i \in 1..Len(Variants) :
                    /\ out.structs[i].struct_def.name = to_upper_camel_case(Variants[i].name)
                    /\ out.structs[i].call_impl.for = out.structs[i].struct_def.name
                    /\ out.structs[i].call_impl.PALLET = pallet.name
                    /\ out.structs[i].call_impl.FUNCTION = Variants[i].name
                    /\ out.fns[i].struct_name = out.structs[i].struct_def.name
                    /\ out.fns[i].fn_name = to_snake_case(Variants[i].name)
        /\ HasCalls => out.kind \in {"module", "abort"}

C8_Witness ==
    /\ Generated /\ ~HasCalls
    /\ Len(Variants) = 2
    /\ out.kind = "empty"

\* C9: in an emitted module the struct of every operation carries no
\* documentation and its accessor carries the operation's documentation
\* unchanged.
C9_DocsOnAccessorOnly ==
    (Generated /\ out.kind = "module") =>
        \A i \in 1..Len(out.fns) :
            /\ out.structs[i].struct_def.docs = None
            /\ out.fns[i].docs = Variants[i].docs

C9_Witness ==
    /\ Generated /\ out.kind = "module"
    /\ Len(out.fns) = 2
    /\ Variants[1].docs # <<>>
    /\ Variants[2].docs = <<>>

(***************************************************************************)
(* Properties of the emitted accessors (Spec)                              *)
(***************************************************************************)
Active(t) == pc[t] # "idle"
Op(t) == Variants[frame[t].op]
\* The fingerprint the schema held for the operation when the code was
\* generated.
Embedded(t) == metadata[Key(pallet.name, Op(t).name)]
\* The live entry of the operation now.
LiveNow(t) == live[Key(pallet.name, Op(t).name)]
Incompatible == "MetadataError::IncompatibleMetadata"

\* The payload the accessor generated without the check builds from the
\* arguments of t's invocation.
UncheckedPayload(t) ==
    LET u == generate_calls(metadata, type_gen, pallet, "not-metadata-check")
    IN EvalStruct(u.fns[frame[t].op], frame[t].args)

\* C1: a checked invocation that read a live fingerprint different from the
\* embedded one never constructs a payload or a handle, and ends with the
\* incompatible-schema error.
C1_MismatchIsRejected ==
    \A t \in Threads :
        (/\ Active(t) /\ feature = "checked"
         /\ hist[t].looked /\ IsSome(hist[t].seen)
         /\ hist[t].seen # Embedded(t)) =>
            /\ ~hist[t].constructed
            /\ pc[t] # "construct"
            /\ result[t].kind # "Ok"
            /\ result[t].handle = None
            /\ pc[t] = "done" =>
                  result[t].kind = "Err" /\ result[t].err = Incompatible

C1_Witness ==
    \E t \in Threads :
        /\ pc[t] = "done" /\ feature = "checked"
        /\ hist[t].seen = Some(HashB) /\ Embedded(t) = Some(HashA)
        /\ Len(frame[t].args) = 2
        /\ result[t].err = Incompatible

C3_LookupFailureIsReturned ==
    \A t \in Threads :
        (/\ Active(t) /\ feature = "checked"
         /\ hist[t].looked /\ hist[t].seen = None) =>
            /\ pc[t] \in {"scope_end", "done"}
            /\ ~hist[t].compared
            /\ ~hist[t].constructed
            /\ runtime_call_hash[t] = None
            /\ pc[t] = "done" =>
                  /\ result[t].kind = "Err"
                  /\ result[t].err = pending[t].err
                  /\ result[t].err # Incompatible
                  /\ result[t].handle = None

C3_Witness ==
    \E t \in Threads :
        /\ pc[t] = "done" /\ feature = "checked"
        /\ hist[t].looked /\ hist[t].seen = None
        /\ result[t].kind = "Err"

\* C4: a thread holds a read guard only between the acquisition and the end
\* of the lookup block: not when it compares, constructs or has returned,
\* whatever the outcome; and never while the writer holds the lock.
C4_GuardIsScoped ==
    /\ \A t \in Threads :
          t \in readers <=> pc[t] \in {"lookup", "scope_end"}
    /\ ~(writer /\ readers # {})

C4_Witness ==
    \E t \in Threads :
        /\ pc[t] = "done"
        /\ result[t].kind = "Err" /\ result[t].err # Incompatible
        /\ readers = {}
        /\ writer

\* C7: the accessor's parameters are the schema's fields, name by name and in
\* order, and the payload of a returned handle holds, field by field, the
\* argument in one Box layer where the field is boxed and the bare argument
\* where it is not.
C7_ParametersAndBoxing ==
    /\ out.kind = "module" =>
          \A i \in 1..Len(out.fns) :
             LET fs == Variants[i].fields.list IN
             /\ Len(out.fns[i].params) = Len(fs)
             /\ \A j \in 1..Len(fs) :
                   /\ out.fns[i].params[j].name = fs[j].name
                   /\ out.fns[i].params[j].type = fs[j].type_path
    /\ \A t \in Threads :
          (pc[t] = "done" /\ result[t].kind = "Ok") =>
             LET fs == Op(t).fields.list
                 call == Unwrap(result[t].handle).call
             IN /\ Len(call.fields) = Len(fs)
                /\ \A j \in 1..Len(fs) :
                      /\ call.fields[j].name = fs[j].name
                      /\ call.fields[j].value.v = frame[t].args[j]
                      /\ call.fields[j].value.layers = IF fs[j].boxed THEN 1 ELSE 0

C7_Witness ==
    \E t \in Threads :
        /\ pc[t] = "done" /\ result[t].kind = "Ok"
        /\ Op(t).fields = NamedBoxed
        /\ frame[t].args = <<"Y", "X">>
        /\ Unwrap(result[t].handle).call.fields[1].value = [layers |-> 1, v |-> "Y"]
        /\ Unwrap(result[t].handle).call.fields[2].value = [layers |-> 0, v |-> "X"]

====
